---- MODULE Spec2Model ----
(***************************************************************************)
(* User-account service: registerUser / loginUser / getAllUsers handlers   *)
(* (src/src/controllers/userController.js), the Sequelize User model and   *)
(* the authenticateToken middleware (src/src/models/userModel.js).         *)
(*                                                                         *)
(* Strings the code inspects character by character (emails, usernames,   *)
(* passwords) are sequences of one-character strings.  Every await of a    *)
(* handler is a scheduling point: one action runs a handler from one       *)
(* await to the next, so requests interleave exactly at the awaits.        *)
(* The clock counts seconds, the unit of the iat/exp claims of a token.    *)
(***************************************************************************)
EXTENDS Integers, Sequences, FiniteSets, TLC

VARIABLES users, nextId, now, req, page, process

vars == <<users, nextId, now, req, page, process>>

(* ------------------------------ bounds --------------------------------- *)

\* number of request slots served concurrently
MaxReq == 2

\* rows the users table may hold in the model
MaxUsers == 3

\* clock values 0..MaxEarly, then the values from the first expiry on
MaxEarly == 0

\* clock values up to expiresIn + MaxLate
MaxLate == 1

\* emails of up to MaxEmailLen characters, one more without spaces
MaxEmailLen == 5

(* --------------------------- program constants ------------------------- *)

\* jwt.sign(..., { expiresIn: '24h' }) in seconds
expiresIn == 86400

\* password.length < 6
MinPasswordLength == 6

\* validate.len.args of username
UsernameMinLen == 3

UsernameMaxLen == 100

\* bytes of the password that bcrypt keys its cipher with
BcryptMaxBytes == 72

\* process.env.JWT_SECRET, and a key that is not the server's
JWT_SECRET == "server-secret"

OtherSecret == "other-secret"

(* ------------------------------ strings -------------------------------- *)

Rep(c, n) == [i \in 1..n |-> c]

S_alice == <<"a", "l", "i">>

S_bob == <<"b", "o", "b">>

S_eve == <<"e", "v", "e">>

S_short == <<"a", "l">>

S_long == Rep("u", UsernameMaxLen + 1)

\* a@b.co and c@b.co are accepted everywhere; a@b.c passes the controller's
\* pattern only; "a@b" has no dot in the domain
E_a == <<"a", "@", "b", ".", "c", "o">>

E_c == <<"c", "@", "b", ".", "c", "o">>

E_e == <<"e", "@", "b", ".", "c", "o">>

E_tld1 == <<"a", "@", "b", ".", "c">>

E_nodot == <<"a", "@", "b">>

P_good == <<"s", "e", "c", "r", "e", "t">>

P_other == <<"s", "e", "c", "r", "e", "T">>

P_five == <<"s", "e", "c", "r", "e">>

\* passwords of BcryptMaxBytes characters and of one more
P_72 == Rep("p", BcryptMaxBytes)

P_73x == Rep("p", BcryptMaxBytes) \o <<"x">>

P_73y == Rep("p", BcryptMaxBytes) \o <<"y">>

Empty == <<>>

Salts == {"s1", "s2"}

\* request bodies: every valid combination, and the combinations in which
\* fields deviate from a valid body
ValidBodies ==
    {<<u, e, P_good>> : u \in {S_alice, S_bob}, e \in {E_a, E_c}}

RegisterBodies ==
    ValidBodies \cup
    { <<Empty, E_a, P_good>>, <<S_alice, Empty, P_good>>, <<S_alice, E_a, Empty>>,
      <<S_alice, E_nodot, P_good>>, <<S_alice, E_tld1, P_good>>, <<S_alice, E_a, P_five>>,
      <<S_short, E_a, P_good>>, <<S_long, E_a, P_good>>,
      <<S_alice, E_nodot, P_five>>, <<Empty, E_nodot, P_five>> }

SystemRegisterBodies ==
    { <<S_alice, E_a, P_good>>, <<S_bob, E_c, P_good>>, <<S_bob, E_a, P_good>>,
      <<S_alice, E_a, P_five>> }

SystemLoginBodies == {<<E_a, P_good>>, <<E_c, P_good>>, <<E_a, P_other>>}

SystemSalts == {"s1"}

LoginBodies ==
    {<<e, p>> : e \in {E_a, E_c}, p \in {P_good, P_other}}
    \cup {<<Empty, P_good>>, <<E_a, Empty>>}

Times == (0..MaxEarly) \cup {expiresIn + d : d \in 0..MaxLate}

ReqIds == 1..MaxReq

\* mutant: the presence check is dropped
FalsyNever(s) == FALSE

\* !x of a string: undefined and "" are both falsy
Falsy(s) == Len(s) = 0

(* --------------------------- email validation -------------------------- *)

IsSpaceOrAt(c) == c \in {" ", "@"}

\* [^\s@]+ over s[lo..hi]
NoSpaceAtPlus(s, lo, hi) ==
    /\ lo <= hi
    /\ \A k \in lo..hi : ~IsSpaceOrAt(s[k])

\* mutant: /^[^\s@]+@[^\s@]+$/, no dot asked of the domain
emailRegexNoDot(s) ==
    \E i \in 1..Len(s) :
        /\ s[i] = "@"
        /\ NoSpaceAtPlus(s, 1, i - 1)
        /\ NoSpaceAtPlus(s, i + 1, Len(s))

\* /^[^\s@]+@[^\s@]+\.[^\s@]+$/.test(email)
emailRegex(s) ==
    \E i \in 1..Len(s) : \E j \in 1..Len(s) :
        /\ i < j
        /\ s[i] = "@"
        /\ s[j] = "."
        /\ NoSpaceAtPlus(s, 1, i - 1)
        /\ NoSpaceAtPlus(s, i + 1, j - 1)
        /\ NoSpaceAtPlus(s, j + 1, Len(s))

\* positions of the dots of s[lo..hi], with the two ends
DotCuts(s, lo, hi) == {lo - 1, hi + 1} \cup {k \in lo..hi : s[k] = "."}

\* every dot-separated part of s[lo..hi] is non-empty
PartsNonEmpty(s, lo, hi) ==
    /\ lo <= hi
    /\ \A k \in DotCuts(s, lo, hi) : (k + 1) \notin DotCuts(s, lo, hi) \/ k = hi + 1

\* length of the last dot-separated part of s[lo..hi]
LastPartLen(s, lo, hi) ==
    LET dots == {k \in lo..hi : s[k] = "."}
        last == CHOOSE k \in dots : \A m \in dots : m <= k
    IN  IF dots = {} THEN hi - lo + 1 ELSE hi - last

\* validate: { isEmail } of the email column: one "@", dot-separated parts
\* of the local part and of the domain all non-empty, a domain of at least
\* two parts whose last part (the TLD) has at least two characters
isEmail(s) ==
    \E i \in 1..Len(s) :
        /\ s[i] = "@"
        /\ \A k \in 1..Len(s) : (s[k] = "@" => k = i) /\ s[k] # " "
        /\ PartsNonEmpty(s, 1, i - 1)
        /\ PartsNonEmpty(s, i + 1, Len(s))
        /\ \E k \in (i + 1)..Len(s) : s[k] = "."
        /\ LastPartLen(s, i + 1, Len(s)) >= 2

\* mutant: len: [0, 100] -- no minimum length
usernameLenNoMinimum(s) == Len(s) <= UsernameMaxLen

\* validate: { len: [3, 100] } of the username column
usernameLen(s) == Len(s) >= UsernameMinLen /\ Len(s) <= UsernameMaxLen

\* the validators Sequelize runs in User.create before the INSERT
modelValidate(username, email) == usernameLen(username) /\ isEmail(email)

(* ------------------------------ bcrypt ---------------------------------- *)

\* the bytes of the password that enter the digest: bcrypt expands its key
\* from 72 bytes and reads no further
bcryptKey(password) ==
    IF Len(password) <= BcryptMaxBytes THEN password
    ELSE SubSeq(password, 1, BcryptMaxBytes)

\* bcrypt.hash(password, SALT_ROUNDS): the digest embeds the random salt
bcryptHash(password, salt) == [salt |-> salt, digest |-> <<salt, bcryptKey(password)>>]

\* mutant: the digest is recomputed without the salt embedded in the hash
bcryptCompareNoSalt(password, hash) == bcryptHash(password, "").digest = hash.digest

\* bcrypt.compare(password, hash): recompute with the salt embedded in hash
bcryptCompare(password, hash) == bcryptHash(password, hash.salt).digest = hash.digest

NoHash == [salt |-> "", digest |-> <<"", Empty>>]

(* ------------------------------- tokens --------------------------------- *)

Payload(userId, email, username, iat, exp) ==
    [userId |-> userId, email |-> email, username |-> username, iat |-> iat, exp |-> exp]

\* HMAC of the payload under a key
Sign(payload, key) == [key |-> key, over |-> payload]

\* mutant: the lifetime is dropped, the token expires as it is issued
jwtSignNoLifetime(claims, secret, t) ==
    LET payload == Payload(claims.userId, claims.email, claims.username, t, t)
    IN  [kind |-> "jwt", payload |-> payload, sig |-> Sign(payload, secret)]

\* mutant: expiresIn: '1h'
jwtSignOneHour(claims, secret, t) ==
    LET payload == Payload(claims.userId, claims.email, claims.username, t, t + 3600)
    IN  [kind |-> "jwt", payload |-> payload, sig |-> Sign(payload, secret)]

\* jwt.sign(payload, secret, { expiresIn: '24h' }) at clock t
jwtSign(claims, secret, t) ==
    LET payload == Payload(claims.userId, claims.email, claims.username, t, t + expiresIn)
    IN  [kind |-> "jwt", payload |-> payload, sig |-> Sign(payload, secret)]

\* a header word that is not a token; text "" is the empty string
Word(text) == [kind |-> "word", text |-> text]

\* mutant: the payload is decoded without checking the signature
jwtVerifyDecodeOnly(token, secret, t) ==
    IF token.kind # "jwt" THEN "JsonWebTokenError"
    ELSE IF t >= token.payload.exp THEN "TokenExpiredError"
    ELSE "ok"

\* mutant: a token is still accepted at its exp
jwtVerifyLate(token, secret, t) ==
    IF token.kind # "jwt" THEN "JsonWebTokenError"
    ELSE IF token.sig # Sign(token.payload, secret) THEN "JsonWebTokenError"
    ELSE IF t > token.payload.exp THEN "TokenExpiredError"
    ELSE "ok"

\* mutant: a token is accepted only in the second it was issued
jwtVerifyAtIssueOnly(token, secret, t) ==
    IF token.kind # "jwt" THEN "JsonWebTokenError"
    ELSE IF token.sig # Sign(token.payload, secret) THEN "JsonWebTokenError"
    ELSE IF t > token.payload.iat THEN "TokenExpiredError"
    ELSE "ok"

\* jwt.verify(token, secret) at clock t: "ok" or the name of the error thrown.
\* The signature is checked first, then the expiry (clockTimestamp >= exp).
jwtVerify(token, secret, t) ==
    IF token.kind # "jwt" THEN "JsonWebTokenError"
    ELSE IF token.sig # Sign(token.payload, secret) THEN "JsonWebTokenError"
    ELSE IF t >= token.payload.exp THEN "TokenExpiredError"
    ELSE "ok"

(* ------------------------------ directory ------------------------------- *)

Rows == {users[i] : i \in 1..Len(users)}

\* User.findOne({ where: { email } })
findUserByEmail(email) == {u \in Rows : u.email = email}

\* mutant: the username is looked up in the email column
findUserByUsernameInEmail(username) == {u \in Rows : u.email = username}

\* User.findOne({ where: { username } })
findUserByUsername(username) == {u \in Rows : u.username = username}

\* mutant: no attribute list, the whole row is returned
PublicRowAll(u) == u

\* attributes: ['id', 'username', 'email', 'createdAt']
PublicRow(u) ==
    [id |-> u.id, username |-> u.username, email |-> u.email, createdAt |-> u.createdAt]

\* mutant: the primary key is ignored, any row is found
findUserByIdAny(id) == {PublicRow(u) : u \in Rows}

\* User.findByPk(id, { attributes })
findUserById(id) == {PublicRow(u) : u \in {v \in Rows : v.id = id}}

\* mutant: the username column is not declared unique
UniqueViolationEmailOnly(username, email) == \E u \in Rows : u.email = email

\* the unique indexes of the users table (unique: true on username and email)
UniqueViolation(username, email) ==
    \E u \in Rows : u.email = email \/ u.username = username

\* the millisecond timestamps of the rows
Stamps == {u.createdAt : u \in Rows}

\* the latest of them, 0 when there is none
LatestStamp == CHOOSE m \in Stamps \cup {0} : \A k \in Stamps : k <= m

Max3(a, b, c) == CHOOSE m \in {a, b, c} : a <= m /\ b <= m /\ c <= m

\* timestamps: true -- createdAt is the clock in milliseconds when User.create
\* is called, which is when bcrypt.hash resolves: the clock shows the current
\* second or later, shows no less than the timestamp of any row, and the
\* hash (SALT_ROUNDS = 10) took more than a millisecond since it began
createdAtNow(hashBegan) == Max3(now * 1000, hashBegan + 1, LatestStamp)

\* the row User.create inserts with timestamp t
NewRow(username, email, hashedPassword, t) ==
    [id |-> nextId, username |-> username, email |-> email,
     password |-> hashedPassword, createdAt |-> t, updatedAt |-> t]

\* outcome of UserModel.createUser: the name of the error thrown, or "ok"
createUser(username, email) ==
    IF ~modelValidate(username, email) THEN "SequelizeValidationError"
    ELSE IF UniqueViolation(username, email) THEN "SequelizeUniqueConstraintError"
    ELSE "ok"

\* error.code of what registerUser catches: Sequelize wraps the driver's
\* error, whose code 23505 sits under error.parent, so error.code is undefined
errorCode(name) == "undefined"

\* order: [['createdAt', 'DESC']] -- rows with equal createdAt in any order
IsPermutation(s) ==
    /\ Len(s) = Len(users)
    /\ \A i \in 1..Len(users) : \E j \in 1..Len(s) : s[j] = PublicRow(users[i])

\* mutant: ORDER BY "createdAt" ASC
SortedAsc(s) == \A i \in 1..Len(s) : \A j \in 1..Len(s) : i < j => s[i].createdAt <= s[j].createdAt

SortedDesc(s) == \A i \in 1..Len(s) : \A j \in 1..Len(s) : i < j => s[i].createdAt >= s[j].createdAt

getAllUsersResults ==
    {s \in [1..Len(users) -> {PublicRow(u) : u \in Rows}] : IsPermutation(s) /\ SortedDesc(s)}

(* ------------------------------ requests -------------------------------- *)

\* sent counts the responses written for the request of a slot.
\* dateNow of a register request is the clock in milliseconds as the request
\* last knew it: no less than the latest row's timestamp when bcrypt.hash
\* is called, the timestamp of its row once the hash has resolved

NoBody ==
    [keys |-> {}, isArray |-> FALSE, error |-> "", message |-> "",
     token |-> {}, user |-> {}, count |-> 0, users |-> <<>>]

IdleReq ==
    [kind |-> "none", pc |-> "idle", username |-> Empty, email |-> Empty,
     password |-> Empty, header |-> <<>>, hashedPassword |-> NoHash, dateNow |-> 0,
     user |-> {},
     clockTimestamp |-> {}, decoded |-> {}, reqUser |-> {}, error |-> "",
     nextCalled |-> FALSE, sent |-> 0,
     status |-> 0, body |-> NoBody]

\* res.status(status).json({ error })
ErrorReply(rq, status, msg) ==
    [rq EXCEPT !.pc = "done", !.status = status, !.sent = @ + 1,
               !.body = [NoBody EXCEPT !.keys = {"error"}, !.error = msg]]

Free(r) == req[r].pc \in {"idle", "done"}

\* localStorage of the page's origin: the items authToken and currentUser
NoStorage == [authToken |-> {}, currentUser |-> {}]

\* the page before its script has run: the variables of app.js are null, the
\* document is as index.html renders it, localStorage is what earlier visits
\* left
ClosedPage(storage) ==
    [pc |-> "closed", storage |-> storage, authToken |-> {}, currentUser |-> {},
     view |-> "markup", alert |-> "", usersError |-> FALSE, listeners |-> FALSE,
     thrown |-> "", slot |-> 0, lastStatus |-> 0]

\* no request has passed the global middleware yet
NoExchange ==
    [method |-> "", origin |-> "", body |-> "", allowOrigin |-> "",
     allowMethods |-> "", status |-> 0, nextCalled |-> FALSE]

\* the node process of server.js just after startServer() has been called and
\* awaits testConnection(): frontendUrl is process.env.FRONTEND_URL ("" when
\* unset), exitCode the code of process.exit once the process has exited
StartedProcess(frontendUrl) ==
    [pc |-> "testing", frontendUrl |-> frontendUrl, dbConnected |-> {},
     listened |-> FALSE, closed |-> FALSE, signal |-> "", thrown |-> "",
     exitCode |-> {}, exchange |-> NoExchange]

\* the process once it listens, the state in which requests are served
ListeningProcess ==
    [StartedProcess("") EXCEPT !.pc = "listening", !.dbConnected = {TRUE},
                               !.listened = TRUE]

TypeOK ==
    /\ Len(users) <= MaxUsers
    /\ nextId \in 1..(MaxUsers + 1)
    /\ now \in Times
    /\ DOMAIN req = ReqIds
    /\ page.pc \in {"closed", "ready", "fetching"}
    /\ page.view \in {"markup", "authenticated", "unauthenticated", "users"}
    /\ process.pc \in {"testing", "binding", "listening", "exited"}

Init ==
    /\ users = <<>>
    /\ nextId = 1
    /\ now = 0
    /\ req = [r \in ReqIds |-> IdleReq]
    /\ page = ClosedPage(NoStorage)
    /\ process = ListeningProcess

(* ----------------------------- registerUser ----------------------------- *)

MsgAllFields == "All fields are required (username, email, password)"

MsgBadEmail == "Please provide a valid email address"

MsgShortPassword == "Password must be at least 6 characters long"

MsgEmailTaken == "Email is already registered"

MsgUsernameTaken == "Username is already taken"

MsgDuplicate == "User with this email or username already exists"

MsgRegisterError == "Server error during registration. Please try again."

\* mutant: the error's own text is sent to the client
registerCatchLeaky(rq, name) == ErrorReply([rq EXCEPT !.error = name], 500, name)

\* the catch block of registerUser
registerCatch(rq, name) ==
    IF errorCode(name) = "23505"
    THEN ErrorReply([rq EXCEPT !.error = name], 409, MsgDuplicate)
    ELSE ErrorReply([rq EXCEPT !.error = name], 500, MsgRegisterError)

\* mutant: a password of the minimum length is refused too
passwordTooShortInclusive(password) == Len(password) <= MinPasswordLength

\* password.length < 6
passwordTooShort(password) == Len(password) < MinPasswordLength

\* mutant: the password length is checked before the email pattern
RegisterStartPasswordFirst(r, username, email, password) ==
    /\ Free(r)
    /\ LET rq == [IdleReq EXCEPT !.kind = "register", !.username = username,
                                 !.email = email, !.password = password]
       IN  req' = [req EXCEPT ![r] =
                IF Falsy(username) \/ Falsy(email) \/ Falsy(password)
                THEN ErrorReply(rq, 400, MsgAllFields)
                ELSE IF passwordTooShort(password)
                THEN ErrorReply(rq, 400, MsgShortPassword)
                ELSE IF ~emailRegex(email)
                THEN ErrorReply(rq, 400, MsgBadEmail)
                ELSE [rq EXCEPT !.pc = "findEmail"]]
    /\ UNCHANGED <<users, nextId, now, page, process>>

\* input validation, up to the first await
RegisterStart(r, username, email, password) ==
    /\ Free(r)
    /\ LET rq == [IdleReq EXCEPT !.kind = "register", !.username = username,
                                 !.email = email, !.password = password]
       IN  req' = [req EXCEPT ![r] =
                IF Falsy(username) \/ Falsy(email) \/ Falsy(password)
                THEN ErrorReply(rq, 400, MsgAllFields)
                ELSE IF ~emailRegex(email)
                THEN ErrorReply(rq, 400, MsgBadEmail)
                ELSE IF passwordTooShort(password)
                THEN ErrorReply(rq, 400, MsgShortPassword)
                ELSE [rq EXCEPT !.pc = "findEmail"]]
    /\ UNCHANGED <<users, nextId, now, page, process>>

\* mutant: the 409 reply is sent without return, the handler goes on
RegisterFindEmailNoReturn(r, dbFails) ==
    /\ req[r].kind = "register" /\ req[r].pc = "findEmail"
    /\ req' = [req EXCEPT ![r] =
            IF dbFails THEN registerCatch(@, "SequelizeDatabaseError")
            ELSE IF findUserByEmail(@.email) # {}
            THEN [ErrorReply(@, 409, MsgEmailTaken) EXCEPT !.pc = "findUsername"]
            ELSE [@ EXCEPT !.pc = "findUsername"]]
    /\ UNCHANGED <<users, nextId, now, page, process>>

\* await UserModel.findUserByEmail(email)
RegisterFindEmail(r, dbFails) ==
    /\ req[r].kind = "register" /\ req[r].pc = "findEmail"
    /\ req' = [req EXCEPT ![r] =
            IF dbFails THEN registerCatch(@, "SequelizeDatabaseError")
            ELSE IF findUserByEmail(@.email) # {} THEN ErrorReply(@, 409, MsgEmailTaken)
            ELSE [@ EXCEPT !.pc = "findUsername"]]
    /\ UNCHANGED <<users, nextId, now, page, process>>

\* await UserModel.findUserByUsername(username), up to the call of bcrypt.hash
RegisterFindUsername(r, dbFails) ==
    /\ req[r].kind = "register" /\ req[r].pc = "findUsername"
    /\ req' = [req EXCEPT ![r] =
            IF dbFails THEN registerCatch(@, "SequelizeDatabaseError")
            ELSE IF findUserByUsername(@.username) # {} THEN ErrorReply(@, 409, MsgUsernameTaken)
            ELSE [@ EXCEPT !.pc = "hash", !.dateNow = LatestStamp]]
    /\ UNCHANGED <<users, nextId, now, page, process>>

\* await bcrypt.hash(password, SALT_ROUNDS), up to the INSERT of User.create
RegisterHash(r, salt) ==
    /\ req[r].kind = "register" /\ req[r].pc = "hash"
    /\ req' = [req EXCEPT ![r] =
            [@ EXCEPT !.pc = "create", !.hashedPassword = bcryptHash(req[r].password, salt),
                      !.dateNow = createdAtNow(req[r].dateNow)]]
    /\ UNCHANGED <<users, nextId, now, page, process>>

\* mutant: User.upsert -- a row with the email or username is overwritten
RegisterCreateUpsert(r, dbFails) ==
    /\ req[r].kind = "register" /\ req[r].pc = "create"
    /\ LET rq == req[r]
           outcome == IF dbFails THEN "SequelizeDatabaseError"
                      ELSE createUser(rq.username, rq.email)
           row == NewRow(rq.username, rq.email, rq.hashedPassword, rq.dateNow)
           created == [rq EXCEPT !.pc = "done", !.status = 201, !.sent = @ + 1,
                                 !.body = [NoBody EXCEPT
                                     !.keys = {"message", "user"},
                                     !.message = "User registered successfully",
                                     !.user = {PublicRow(row)}]]
       IN  IF outcome = "ok"
           THEN /\ nextId <= MaxUsers
                /\ users' = Append(users, row)
                /\ nextId' = nextId + 1
                /\ req' = [req EXCEPT ![r] = created]
           ELSE IF outcome = "SequelizeUniqueConstraintError"
           THEN /\ users' = [i \in 1..Len(users) |->
                               IF users[i].email = rq.email \/ users[i].username = rq.username
                               THEN row ELSE users[i]]
                /\ nextId' = nextId + 1
                /\ req' = [req EXCEPT ![r] = created]
           ELSE /\ req' = [req EXCEPT ![r] = registerCatch(rq, outcome)]
                /\ UNCHANGED <<users, nextId>>
    /\ UNCHANGED <<now, page, process>>

\* await UserModel.createUser(...), then the 201 response or the catch block
RegisterCreate(r, dbFails) ==
    /\ req[r].kind = "register" /\ req[r].pc = "create"
    /\ LET rq == req[r]
           outcome == IF dbFails THEN "SequelizeDatabaseError"
                      ELSE createUser(rq.username, rq.email)
           row == NewRow(rq.username, rq.email, rq.hashedPassword, rq.dateNow)
       IN  IF outcome = "ok"
           THEN /\ nextId <= MaxUsers
                /\ users' = Append(users, row)
                /\ nextId' = nextId + 1
                /\ req' = [req EXCEPT ![r] =
                        [rq EXCEPT !.pc = "done", !.status = 201, !.sent = @ + 1,
                                   !.body = [NoBody EXCEPT
                                       !.keys = {"message", "user"},
                                       !.message = "User registered successfully",
                                       !.user = {PublicRow(row)}]]]
           ELSE /\ req' = [req EXCEPT ![r] = registerCatch(rq, outcome)]
                /\ UNCHANGED <<users, nextId>>
    /\ UNCHANGED <<now, page, process>>

(* ------------------------------ loginUser ------------------------------- *)

MsgLoginFields == "Email and password are required"

MsgInvalidCredentials == "Invalid email or password"

MsgLoginError == "Server error during login. Please try again."

\* mutant: an unknown email is reported as such
loginNoUserRevealing(rq) == ErrorReply(rq, 404, "User not found")

\* if (!user) return res.status(401)...
loginNoUser(rq) == ErrorReply(rq, 401, MsgInvalidCredentials)

\* if (!isPasswordValid) return res.status(401)...
loginBadPassword(rq) == ErrorReply(rq, 401, MsgInvalidCredentials)

\* input validation, up to the first await
LoginStart(r, email, password) ==
    /\ Free(r)
    /\ LET rq == [IdleReq EXCEPT !.kind = "login", !.email = email, !.password = password]
       IN  req' = [req EXCEPT ![r] =
                IF Falsy(email) \/ Falsy(password)
                THEN ErrorReply(rq, 400, MsgLoginFields)
                ELSE [rq EXCEPT !.pc = "findEmail"]]
    /\ UNCHANGED <<users, nextId, now, page, process>>

\* await UserModel.findUserByEmail(email), up to await bcrypt.compare
LoginFindEmail(r, dbFails) ==
    /\ req[r].kind = "login" /\ req[r].pc = "findEmail"
    /\ \/ /\ dbFails
          /\ req' = [req EXCEPT ![r] =
                  ErrorReply([@ EXCEPT !.error = "SequelizeDatabaseError"], 500, MsgLoginError)]
       \/ /\ ~dbFails
          /\ findUserByEmail(req[r].email) = {}
          /\ req' = [req EXCEPT ![r] = loginNoUser(@)]
       \/ /\ ~dbFails
          /\ \E u \in findUserByEmail(req[r].email) :
                req' = [req EXCEPT ![r] = [@ EXCEPT !.pc = "compare", !.user = {u}]]
    /\ UNCHANGED <<users, nextId, now, page, process>>

\* mutant: the email and username claims are exchanged
loginTokenSwapped(u, t) ==
    jwtSign([userId |-> u.id, email |-> u.username, username |-> u.email], JWT_SECRET, t)

\* the token and body of the 200 response of loginUser for user u at clock t
loginToken(u, t) ==
    jwtSign([userId |-> u.id, email |-> u.email, username |-> u.username], JWT_SECRET, t)

loginBody(u, t) ==
    [NoBody EXCEPT !.keys = {"message", "token", "user"},
                   !.message = "Login successful",
                   !.token = {loginToken(u, t)},
                   !.user = {[id |-> u.id, username |-> u.username, email |-> u.email]}]

\* await bcrypt.compare(password, user.password), then jwt.sign and the response
LoginCompare(r) ==
    /\ req[r].kind = "login" /\ req[r].pc = "compare"
    /\ LET rq == req[r]
           u == CHOOSE v \in rq.user : TRUE
       IN  req' = [req EXCEPT ![r] =
                IF ~bcryptCompare(rq.password, u.password)
                THEN loginBadPassword(rq)
                ELSE [rq EXCEPT !.pc = "done", !.status = 200, !.sent = @ + 1,
                                !.body = loginBody(u, now)]]
    /\ UNCHANGED <<users, nextId, now, page, process>>

(* --------------------------- authenticateToken -------------------------- *)

MsgNoToken == "Access denied. No token provided."

MsgUserNotFound == "User not found. Token invalid."

MsgInvalidToken == "Invalid token"

MsgTokenExpired == "Token has expired. Please login again."

MsgAuthError == "Server error during authentication"

MsgListError == "Error retrieving users. Please try again later."

\* router.get('/', authenticateToken, getAllUsers) of routes/userRoutes.js:
\* the handlers of GET /api/users, in the order Express runs them
usersRoute == <<"authenticateToken", "getAllUsers">>

\* mutant: the first part of the header is taken for the token
headerTokenFirst(header) ==
    IF Len(header) < 1 THEN {} ELSE {header[1]}

\* authHeader && authHeader.split(' ')[1], as a set of at most one token
headerToken(header) ==
    IF Len(header) < 2 THEN {}
    ELSE IF header[2].kind = "word" /\ header[2].text = "" THEN {}
    ELSE {header[2]}

\* the catch block of authenticateToken
authCatch(rq, name) ==
    IF name = "JsonWebTokenError"
    THEN ErrorReply([rq EXCEPT !.error = name], 401, MsgInvalidToken)
    ELSE IF name = "TokenExpiredError"
    THEN ErrorReply([rq EXCEPT !.error = name], 401, MsgTokenExpired)
    ELSE ErrorReply([rq EXCEPT !.error = name], 500, MsgAuthError)

\* tokens a client can build from one it holds without the server's secret
Tampered(t) ==
    { [t EXCEPT !.payload.exp = @ + expiresIn],
      [t EXCEPT !.payload.userId = @ + 1],
      [t EXCEPT !.sig = Sign(t.payload, OtherSecret)] }

Schemes == {"Bearer"}

\* the tokens clients hold: those in the login responses not yet overwritten
issued == UNION {req[r].body.token : r \in ReqIds}

Headers ==
    {<<>>, <<Word("Bearer")>>, <<Word("Bearer"), Word("")>>, <<Word("Bearer"), Word("garbage")>>}
    \cup {<<Word(s), t>> : s \in Schemes, t \in issued}
    \cup {<<Word("Bearer"), t>> : t \in UNION {Tampered(i) : i \in issued}}

\* GET /api/users: header parsing and jwt.verify, up to await findUserById
gateArrives(r, header) ==
    /\ Free(r)
    /\ usersRoute[1] = "authenticateToken"
    /\ LET token == headerToken(header)
           rq == [IdleReq EXCEPT !.kind = "list", !.header = header,
                                 !.clockTimestamp = IF token = {} THEN {} ELSE {now}]
           tk == CHOOSE t \in token : TRUE
           verdict == jwtVerify(tk, JWT_SECRET, now)
       IN  req' = [req EXCEPT ![r] =
                IF token = {} THEN ErrorReply(rq, 401, MsgNoToken)
                ELSE IF verdict # "ok" THEN authCatch(rq, verdict)
                ELSE [rq EXCEPT !.pc = "findById", !.decoded = {tk.payload}]]

\* a GET /api/users from any client
GateStart(r, header) ==
    /\ gateArrives(r, header)
    /\ UNCHANGED <<users, nextId, now, page, process>>

\* mutant: the claims of the token are trusted, the account is not looked up
GateFindByIdNoRecheck(r, dbFails) ==
    /\ req[r].kind = "list" /\ req[r].pc = "findById"
    /\ LET rq == req[r]
           decoded == CHOOSE d \in rq.decoded : TRUE
       IN  req' = [req EXCEPT ![r] =
                IF dbFails THEN authCatch(rq, "SequelizeDatabaseError")
                ELSE [rq EXCEPT !.pc = usersRoute[2], !.nextCalled = TRUE,
                                !.reqUser = {[userId |-> decoded.userId,
                                              email |-> decoded.email,
                                              username |-> decoded.username]}]]
    /\ UNCHANGED <<users, nextId, now, page, process>>

\* mutant: a failure of the lookup lets the request through on its claims
GateFindByIdFailOpen(r, dbFails) ==
    /\ req[r].kind = "list" /\ req[r].pc = "findById"
    /\ LET rq == req[r]
           decoded == CHOOSE d \in rq.decoded : TRUE
           found == findUserById(decoded.userId)
       IN  req' = [req EXCEPT ![r] =
                IF ~dbFails /\ found = {} THEN ErrorReply(rq, 401, MsgUserNotFound)
                ELSE [rq EXCEPT !.pc = usersRoute[2], !.nextCalled = TRUE,
                                !.error = IF dbFails THEN "SequelizeDatabaseError" ELSE "",
                                !.reqUser = {[userId |-> decoded.userId,
                                              email |-> decoded.email,
                                              username |-> decoded.username]}]]
    /\ UNCHANGED <<users, nextId, now, page, process>>

\* await UserModel.findUserById(decoded.userId), req.user, next(), and
\* the next handler of the route up to its await
GateFindById(r, dbFails) ==
    /\ req[r].kind = "list" /\ req[r].pc = "findById"
    /\ LET rq == req[r]
           decoded == CHOOSE d \in rq.decoded : TRUE
           found == findUserById(decoded.userId)
           user == CHOOSE u \in found : TRUE
       IN  req' = [req EXCEPT ![r] =
                IF dbFails THEN authCatch(rq, "SequelizeDatabaseError")
                ELSE IF found = {} THEN ErrorReply(rq, 401, MsgUserNotFound)
                ELSE [rq EXCEPT !.pc = usersRoute[2], !.nextCalled = TRUE,
                                !.reqUser = {[userId |-> user.id, email |-> user.email,
                                              username |-> user.username]}]]
    /\ UNCHANGED <<users, nextId, now, page, process>>

(* ------------------------------ getAllUsers ----------------------------- *)

\* await UserModel.getAllUsers(), then res.status(200).json(users)
ListGetAll(r, dbFails) ==
    /\ req[r].kind = "list" /\ req[r].pc = "getAllUsers"
    /\ \/ /\ dbFails
          /\ req' = [req EXCEPT ![r] =
                  ErrorReply([@ EXCEPT !.error = "SequelizeDatabaseError"], 500, MsgListError)]
       \/ /\ ~dbFails
          /\ \E rows \in getAllUsersResults :
                req' = [req EXCEPT ![r] =
                    [@ EXCEPT !.pc = "done", !.status = 200, !.sent = @ + 1,
                              !.body = [NoBody EXCEPT !.isArray = TRUE, !.users = rows]]]
    /\ UNCHANGED <<users, nextId, now, page, process>>

(* ------------------------------ environment ---------------------------- *)

\* The users table lives in the database, which is shared with whoever else
\* can reach it: a row is deleted outside the service. This is what
\* "Verify user still exists in DB" in authenticateToken provides for; ids
\* come from a sequence and are not given out again.
RemoveAccount(i) ==
    /\ i \in 1..Len(users)
    /\ users' = [k \in 1..(Len(users) - 1) |-> IF k < i THEN users[k] ELSE users[k + 1]]
    /\ UNCHANGED <<nextId, now, req, page, process>>


Tick(t) ==
    /\ t > now
    /\ now' = t
    /\ UNCHANGED <<users, nextId, req, page, process>>

(* ------------------------------- server.js ------------------------------ *)

\* whether server.js binds the name `server`: app.listen(PORT, ...) is called
\* as a statement and its result is assigned to nothing
serverDeclared == FALSE

\* process.exit(code)
Exit(p, code) == [p EXCEPT !.pc = "exited", !.exitCode = {code}]

\* testConnection(): true when pool.connect() resolves, false from its catch
\* block when it rejects
testConnection(poolConnects) == IF poolConnects THEN TRUE ELSE FALSE

\* mutant: the result of the connection test is not looked at
StartServerIgnoresTest(poolConnects, listenThrows) ==
    /\ process.pc = "testing"
    /\ LET dbConnected == testConnection(poolConnects)
           p == [process EXCEPT !.dbConnected = {dbConnected}]
       IN  process' =
               IF listenThrows THEN Exit([p EXCEPT !.thrown = "Error"], 1)
               ELSE [p EXCEPT !.pc = "binding"]
    /\ UNCHANGED <<users, nextId, now, req, page>>

\* startServer() from the result of await testConnection() on: the exit on a
\* failed test, the call of app.listen, and the catch block when that call
\* throws (a port out of range)
StartServer(poolConnects, listenThrows) ==
    /\ process.pc = "testing"
    /\ LET dbConnected == testConnection(poolConnects)
           p == [process EXCEPT !.dbConnected = {dbConnected}]
       IN  process' =
               IF ~dbConnected THEN Exit(p, 1)
               ELSE IF listenThrows THEN Exit([p EXCEPT !.thrown = "Error"], 1)
               ELSE [p EXCEPT !.pc = "binding"]
    /\ UNCHANGED <<users, nextId, now, req, page>>

\* the http server's 'listening' event, or its 'error' event (the port is in
\* use), which has no listener and ends the process as an uncaught exception
ServerBound(bound) ==
    /\ process.pc = "binding"
    /\ process' = IF bound
                  THEN [process EXCEPT !.pc = "listening", !.listened = TRUE]
                  ELSE Exit([process EXCEPT !.thrown = "EADDRINUSE"], 1)
    /\ UNCHANGED <<users, nextId, now, req, page>>

\* the SIGTERM listener: evaluating `server` throws when the name is not
\* bound, and the exception, uncaught, ends the process with code 1
Sigterm ==
    /\ process.pc # "exited"
    /\ LET p == [process EXCEPT !.signal = "SIGTERM"]
       IN  process' =
               IF serverDeclared THEN Exit([p EXCEPT !.closed = TRUE], 0)
               ELSE Exit([p EXCEPT !.thrown = "ReferenceError"], 1)
    /\ UNCHANGED <<users, nextId, now, req, page>>

\* the SIGINT listener
Sigint ==
    /\ process.pc # "exited"
    /\ process' = Exit([process EXCEPT !.signal = "SIGINT"], 0)
    /\ UNCHANGED <<users, nextId, now, req, page>>

\* pool.on('error'): an idle client of the pool fails, process.exit(-1)
PoolError ==
    /\ process.pc # "exited" /\ process.dbConnected = {TRUE}
    /\ process' = Exit([process EXCEPT !.thrown = "PoolError"], 255)
    /\ UNCHANGED <<users, nextId, now, req, page>>

Methods == {"GET", "POST", "DELETE", "OPTIONS"}

FrontendUrls == {"", "https://app.example"}

\* the Origin header of a request; "" stands for a request without one
Origins ==
    {"", "http://localhost:3000", "http://127.0.0.1:5500", "https://app.example",
     "https://evil.example"}

\* allowedOrigins, with process.env.FRONTEND_URL when it is set
allowedOrigins(frontendUrl) ==
    {"http://localhost:3000", "http://localhost:5500", "http://127.0.0.1:8000",
     "http://127.0.0.1:5500"} \cup (IF frontendUrl = "" THEN {} ELSE {frontendUrl})

\* mutant: a request of a disallowed origin is answered 403
corsStrict(x, frontendUrl) ==
    LET allowed == x.origin \in allowedOrigins(frontendUrl) \/ x.origin = ""
        h == [x EXCEPT !.allowOrigin = IF ~allowed THEN ""
                                       ELSE IF x.origin = "" THEN "*" ELSE x.origin,
                       !.allowMethods = "GET, POST, PUT, DELETE, OPTIONS"]
    IN  IF ~allowed THEN [h EXCEPT !.status = 403]
        ELSE IF x.method = "OPTIONS" THEN [h EXCEPT !.status = 200]
        ELSE [h EXCEPT !.nextCalled = TRUE]

\* cors(req, res, next) on the exchange x: the headers it sets, and either
\* res.sendStatus(200) or next()
cors(x, frontendUrl) ==
    LET allowed == x.origin \in allowedOrigins(frontendUrl) \/ x.origin = ""
        h == [x EXCEPT !.allowOrigin = IF ~allowed THEN ""
                                       ELSE IF x.origin = "" THEN "*" ELSE x.origin,
                       !.allowMethods = "GET, POST, PUT, DELETE, OPTIONS"]
    IN  IF x.method = "OPTIONS" THEN [h EXCEPT !.status = 200]
        ELSE [h EXCEPT !.nextCalled = TRUE]

\* a request whose body the parsers accepted reaches app.use(cors)
CorsRequest(method, origin) ==
    /\ process.pc = "listening"
    /\ process' = [process EXCEPT !.exchange =
            cors([NoExchange EXCEPT !.method = method, !.origin = origin],
                 process.frontendUrl)]
    /\ UNCHANGED <<users, nextId, now, req, page>>

(* ------------------------------ frontend -------------------------------- *)

MsgSessionExpired == "Session expired. Please login again."
MsgLoadFailed == "Failed to load users. Please try again."
MsgLoggedOut == "Logged out successfully"

\* the function declarations of app.js; every other function the script
\* calls exists only inside comments
DefinedFunctions == {"checkAuthStatus", "setupEventListeners", "loadUsers"}

\* evaluating the name of a function that is not declared
ReferenceError(pg) == [pg EXCEPT !.thrown = "ReferenceError"]

\* showAlert(message, type)
showAlert(pg, message) ==
    IF "showAlert" \in DefinedFunctions THEN [pg EXCEPT !.alert = message]
    ELSE ReferenceError(pg)

\* showAuthenticatedState()
showAuthenticatedState(pg) ==
    IF "showAuthenticatedState" \in DefinedFunctions
    THEN [pg EXCEPT !.view = "authenticated"]
    ELSE ReferenceError(pg)

\* showUnauthenticatedState()
showUnauthenticatedState(pg) ==
    IF "showUnauthenticatedState" \in DefinedFunctions
    THEN [pg EXCEPT !.view = "unauthenticated"]
    ELSE ReferenceError(pg)

\* displayUsers(users, count)
displayUsers(pg) ==
    IF "displayUsers" \in DefinedFunctions THEN [pg EXCEPT !.view = "users"]
    ELSE ReferenceError(pg)

\* logout()
logout(pg) ==
    IF "logout" \notin DefinedFunctions THEN ReferenceError(pg)
    ELSE LET cleared == [pg EXCEPT !.authToken = {}, !.currentUser = {},
                                   !.storage = NoStorage]
             alerted == showAlert(cleared, MsgLoggedOut)
         IN  IF alerted.thrown # "" THEN alerted
             ELSE showUnauthenticatedState(alerted)

\* checkAuthStatus(): the variables are assigned before the state is shown
checkAuthStatus(pg) ==
    IF pg.storage.authToken # {} /\ pg.storage.currentUser # {}
    THEN showAuthenticatedState([pg EXCEPT !.authToken = pg.storage.authToken,
                                           !.currentUser = pg.storage.currentUser])
    ELSE showUnauthenticatedState(pg)

\* setupEventListeners(): the arguments logout, handleRegister and handleLogin
\* are evaluated when the listeners are attached
setupEventListeners(pg) ==
    IF {"logout", "handleRegister", "handleLogin"} \subseteq DefinedFunctions
    THEN [pg EXCEPT !.listeners = TRUE]
    ELSE ReferenceError(pg)

\* the DOMContentLoaded listener of a freshly loaded page
PageLoad ==
    /\ page.pc = "closed"
    /\ LET fresh == [ClosedPage(page.storage) EXCEPT !.pc = "ready"]
           checked == checkAuthStatus(fresh)
       IN  page' = IF checked.thrown # "" THEN checked
                   ELSE setupEventListeners(checked)
    /\ UNCHANGED <<users, nextId, now, req, process>>

\* the tab is closed or reloaded: the script's state goes, localStorage stays
PageClose ==
    /\ page.pc = "ready"
    /\ page' = ClosedPage(page.storage)
    /\ UNCHANGED <<users, nextId, now, req, process>>

\* loadUsers() up to await fetch: the request carries Bearer ${authToken}
LoadUsersFetch(r) ==
    /\ page.pc = "ready"
    /\ gateArrives(r, <<Word("Bearer"),
                        IF page.authToken = {} THEN Word("null")
                        ELSE CHOOSE t \in page.authToken : TRUE>>)
    /\ page' = [page EXCEPT !.pc = "fetching", !.slot = r, !.usersError = FALSE,
                            !.thrown = ""]
    /\ UNCHANGED <<users, nextId, now, process>>

\* loadUsers() from the response on: the branches on response.ok and
\* response.status, the catch block and what escapes it
LoadUsersResponse ==
    /\ page.pc = "fetching"
    /\ req[page.slot].kind = "list" /\ req[page.slot].pc = "done"
    /\ LET status == req[page.slot].status
           pg == [page EXCEPT !.pc = "ready", !.slot = 0, !.lastStatus = status]
           tried == IF status = 200 THEN displayUsers(pg)
                    ELSE IF status = 401
                    THEN LET alerted == showAlert(pg, MsgSessionExpired)
                         IN  IF alerted.thrown # "" THEN alerted
                             ELSE logout(alerted)
                    ELSE [pg EXCEPT !.thrown = "Error"]
       IN  page' = IF tried.thrown = "" THEN tried
                   ELSE showAlert([tried EXCEPT !.thrown = "", !.usersError = TRUE],
                                  MsgLoadFailed)
    /\ UNCHANGED <<users, nextId, now, req, process>>

\* localStorage as other scripts of the origin leave it: the token and the
\* user of a login response are stored under the keys checkAuthStatus reads
StoreSession(r) ==
    /\ req[r].kind = "login" /\ req[r].pc = "done" /\ req[r].status = 200
    /\ page.storage # [authToken |-> req[r].body.token, currentUser |-> req[r].body.user]
    /\ page' = [page EXCEPT !.storage =
            [authToken |-> req[r].body.token, currentUser |-> req[r].body.user]]
    /\ UNCHANGED <<users, nextId, now, req, process>>

\* one of the two items is removed from localStorage
StorageRemove(key) ==
    /\ page.storage[key] # {}
    /\ page' = [page EXCEPT !.storage[key] = {}]
    /\ UNCHANGED <<users, nextId, now, req, process>>

(* ----------------------------- specification ---------------------------- *)

\* the whole service: every handler, the gate and the clock, on the valid
\* register bodies and one body of each validation failure
Next ==
    \/ \E r \in ReqIds, b \in SystemRegisterBodies : RegisterStart(r, b[1], b[2], b[3])
    \/ \E r \in ReqIds, f \in BOOLEAN : RegisterFindEmail(r, f)
    \/ \E r \in ReqIds, f \in BOOLEAN : RegisterFindUsername(r, f)
    \/ \E r \in ReqIds, s \in SystemSalts : RegisterHash(r, s)
    \/ \E r \in ReqIds, f \in BOOLEAN : RegisterCreate(r, f)
    \/ \E r \in ReqIds, b \in SystemLoginBodies : LoginStart(r, b[1], b[2])
    \/ \E r \in ReqIds, f \in BOOLEAN : LoginFindEmail(r, f)
    \/ \E r \in ReqIds : LoginCompare(r)
    \/ \E r \in ReqIds, h \in Headers : GateStart(r, h)
    \/ \E r \in ReqIds, f \in BOOLEAN : GateFindById(r, f)
    \/ \E r \in ReqIds, f \in BOOLEAN : ListGetAll(r, f)
    \/ \E t \in Times : Tick(t)

Spec == Init /\ [][Next]_vars

\* registration and login alone, on every request body, at a fixed clock
NextAccounts ==
    \/ \E r \in ReqIds, b \in RegisterBodies : RegisterStart(r, b[1], b[2], b[3])
    \/ \E r \in ReqIds, f \in BOOLEAN : RegisterFindEmail(r, f)
    \/ \E r \in ReqIds, f \in BOOLEAN : RegisterFindUsername(r, f)
    \/ \E r \in ReqIds, s \in Salts : RegisterHash(r, s)
    \/ \E r \in ReqIds, f \in BOOLEAN : RegisterCreate(r, f)
    \/ \E r \in ReqIds, b \in LoginBodies : LoginStart(r, b[1], b[2])
    \/ \E r \in ReqIds, f \in BOOLEAN : LoginFindEmail(r, f)
    \/ \E r \in ReqIds : LoginCompare(r)

SpecAccounts == Init /\ [][NextAccounts]_vars

\* the service with accounts deleted under it, at a fixed clock
RemovalRegisterBodies == {<<S_alice, E_a, P_good>>, <<S_bob, E_c, P_good>>}

RemovalLoginBodies == {<<E_a, P_good>>, <<E_c, P_good>>}

NextRemoval ==
    \/ \E r \in ReqIds, b \in RemovalRegisterBodies : RegisterStart(r, b[1], b[2], b[3])
    \/ \E r \in ReqIds, f \in BOOLEAN : RegisterFindEmail(r, f)
    \/ \E r \in ReqIds, f \in BOOLEAN : RegisterFindUsername(r, f)
    \/ \E r \in ReqIds, s \in SystemSalts : RegisterHash(r, s)
    \/ \E r \in ReqIds, f \in BOOLEAN : RegisterCreate(r, f)
    \/ \E r \in ReqIds, b \in RemovalLoginBodies : LoginStart(r, b[1], b[2])
    \/ \E r \in ReqIds, f \in BOOLEAN : LoginFindEmail(r, f)
    \/ \E r \in ReqIds : LoginCompare(r)
    \/ \E r \in ReqIds, h \in Headers : GateStart(r, h)
    \/ \E r \in ReqIds, f \in BOOLEAN : GateFindById(r, f)
    \/ \E r \in ReqIds, f \in BOOLEAN : ListGetAll(r, f)
    \/ \E i \in 1..MaxUsers : RemoveAccount(i)

SpecRemoval == Init /\ [][NextRemoval]_vars

\* three accounts registered one after another in slot 1, logins in slot 2,
\* list requests in either slot, at a fixed clock
ListingRegisterBodies ==
    {<<S_alice, E_a, P_good>>, <<S_bob, E_c, P_good>>, <<S_eve, E_e, P_good>>}

ListingLoginBodies == {<<E_a, P_good>>}

NextListing ==
    \/ \E b \in ListingRegisterBodies : RegisterStart(1, b[1], b[2], b[3])
    \/ \E r \in ReqIds, f \in BOOLEAN : RegisterFindEmail(r, f)
    \/ \E r \in ReqIds, f \in BOOLEAN : RegisterFindUsername(r, f)
    \/ \E r \in ReqIds, s \in SystemSalts : RegisterHash(r, s)
    \/ \E r \in ReqIds, f \in BOOLEAN : RegisterCreate(r, f)
    \/ \E b \in ListingLoginBodies : LoginStart(2, b[1], b[2])
    \/ \E r \in ReqIds, f \in BOOLEAN : LoginFindEmail(r, f)
    \/ \E r \in ReqIds : LoginCompare(r)
    \/ \E r \in ReqIds, h \in Headers : GateStart(r, h)
    \/ \E r \in ReqIds, f \in BOOLEAN : GateFindById(r, f)
    \/ \E r \in ReqIds, f \in BOOLEAN : ListGetAll(r, f)

SpecListing == Init /\ [][NextListing]_vars

\* registration, one request at a time, on every email of up to MaxEmailLen
\* characters over a letter, "@", "." and the space, and of one character
\* more over a letter, "@" and "."
EmailChars == {"a", "@", ".", " "}

AllEmails ==
    UNION {[1..n -> EmailChars] : n \in 0..MaxEmailLen}
    \cup [1..(MaxEmailLen + 1) -> EmailChars \ {" "}]

NextEmail ==
    \/ \E e \in AllEmails : RegisterStart(1, S_alice, e, P_good)
    \/ \E r \in ReqIds, f \in BOOLEAN : RegisterFindEmail(r, f)
    \/ \E r \in ReqIds, f \in BOOLEAN : RegisterFindUsername(r, f)
    \/ \E r \in ReqIds, s \in SystemSalts : RegisterHash(r, s)
    \/ \E r \in ReqIds, f \in BOOLEAN : RegisterCreate(r, f)

SpecEmail == Init /\ [][NextEmail]_vars

\* registration and login on passwords up to and beyond bcrypt's key length
PasswordRegisterBodies == {<<S_alice, E_a, P_73x>>, <<S_bob, E_c, P_good>>}

PasswordLoginBodies ==
    {<<E_a, p>> : p \in {P_73x, P_73y, P_72, P_good}}
    \cup {<<E_c, p>> : p \in {P_good, P_other}}

NextPasswords ==
    \/ \E r \in ReqIds, b \in PasswordRegisterBodies : RegisterStart(r, b[1], b[2], b[3])
    \/ \E r \in ReqIds, f \in BOOLEAN : RegisterFindEmail(r, f)
    \/ \E r \in ReqIds, f \in BOOLEAN : RegisterFindUsername(r, f)
    \/ \E r \in ReqIds, s \in Salts : RegisterHash(r, s)
    \/ \E r \in ReqIds, f \in BOOLEAN : RegisterCreate(r, f)
    \/ \E r \in ReqIds, b \in PasswordLoginBodies : LoginStart(r, b[1], b[2])
    \/ \E r \in ReqIds, f \in BOOLEAN : LoginFindEmail(r, f)
    \/ \E r \in ReqIds : LoginCompare(r)

SpecPasswords == Init /\ [][NextPasswords]_vars

\* the page against the service: one account registers and logs in through
\* slot 1, the page's listing requests use slot 2
FrontendRegisterBodies == {<<S_alice, E_a, P_good>>}
FrontendLoginBodies == {<<E_a, P_good>>}

NextFrontend ==
    \/ \E b \in FrontendRegisterBodies : RegisterStart(1, b[1], b[2], b[3])
    \/ \E r \in ReqIds, dbFails \in BOOLEAN : RegisterFindEmail(r, dbFails)
    \/ \E r \in ReqIds, dbFails \in BOOLEAN : RegisterFindUsername(r, dbFails)
    \/ \E r \in ReqIds, salt \in SystemSalts : RegisterHash(r, salt)
    \/ \E r \in ReqIds, dbFails \in BOOLEAN : RegisterCreate(r, dbFails)
    \/ \E b \in FrontendLoginBodies : LoginStart(1, b[1], b[2])
    \/ \E r \in ReqIds, dbFails \in BOOLEAN : LoginFindEmail(r, dbFails)
    \/ \E r \in ReqIds : LoginCompare(r)
    \/ \E r \in ReqIds, dbFails \in BOOLEAN : GateFindById(r, dbFails)
    \/ \E r \in ReqIds, dbFails \in BOOLEAN : ListGetAll(r, dbFails)
    \/ \E t \in Times : Tick(t)
    \/ PageLoad
    \/ PageClose
    \/ LoadUsersFetch(2)
    \/ LoadUsersResponse
    \/ StoreSession(1)
    \/ \E key \in {"authToken", "currentUser"} : StorageRemove(key)

SpecFrontend == Init /\ [][NextFrontend]_vars

\* authorization headers by their space-separated parts: none, one part (a
\* scheme word or a bare token), a scheme followed by the empty string (two
\* spaces, or a trailing space), and a token after each of several words
HeaderWords == {"Bearer", "bearer", "Basic", "x"}

SchemeHeaders ==
    {<<>>, <<Word("Bearer"), Word("")>>}
    \cup {<<Word(s)>> : s \in HeaderWords}
    \cup {<<t>> : t \in issued}
    \cup {<<Word(s), t>> : s \in HeaderWords, t \in issued}
    \cup {<<Word("Bearer"), Word(""), t>> : t \in issued}
    \cup {<<t, Word(s)>> : s \in HeaderWords, t \in issued}

HeaderRegisterBodies == {<<S_alice, E_a, P_good>>}

HeaderLoginBodies == {<<E_a, P_good>>}

\* one account registers and logs in through slot 1; slot 2 sends listing
\* requests with every header of SchemeHeaders
NextHeaders ==
    \/ \E b \in HeaderRegisterBodies : RegisterStart(1, b[1], b[2], b[3])
    \/ \E r \in ReqIds, f \in BOOLEAN : RegisterFindEmail(r, f)
    \/ \E r \in ReqIds, f \in BOOLEAN : RegisterFindUsername(r, f)
    \/ \E r \in ReqIds, s \in SystemSalts : RegisterHash(r, s)
    \/ \E r \in ReqIds, f \in BOOLEAN : RegisterCreate(r, f)
    \/ \E b \in HeaderLoginBodies : LoginStart(1, b[1], b[2])
    \/ \E r \in ReqIds, f \in BOOLEAN : LoginFindEmail(r, f)
    \/ \E r \in ReqIds : LoginCompare(r)
    \/ \E h \in SchemeHeaders : GateStart(2, h)
    \/ \E r \in ReqIds, f \in BOOLEAN : GateFindById(r, f)
    \/ \E r \in ReqIds, f \in BOOLEAN : ListGetAll(r, f)
    \/ \E t \in Times : Tick(t)

SpecHeaders == Init /\ [][NextHeaders]_vars

\* the continuation of the handler of slot r after the promise it awaits has
\* settled, resolved or rejected
HandlerStep(r) ==
    \/ \E f \in BOOLEAN : RegisterFindEmail(r, f)
    \/ \E f \in BOOLEAN : RegisterFindUsername(r, f)
    \/ \E s \in SystemSalts : RegisterHash(r, s)
    \/ \E f \in BOOLEAN : RegisterCreate(r, f)
    \/ \E f \in BOOLEAN : LoginFindEmail(r, f)
    \/ LoginCompare(r)
    \/ \E f \in BOOLEAN : GateFindById(r, f)
    \/ \E f \in BOOLEAN : ListGetAll(r, f)

\* the process from its start: it serves requests only while it listens
InitServer ==
    /\ users = <<>>
    /\ nextId = 1
    /\ now = 0
    /\ req = [r \in ReqIds |-> IdleReq]
    /\ page = ClosedPage(NoStorage)
    /\ \E url \in FrontendUrls : process = StartedProcess(url)

ServerRegisterBodies == {<<S_alice, E_a, P_good>>}

ServerLoginBodies == {<<E_a, P_good>>}

ServerHeaders == {<<>>} \cup {<<Word("Bearer"), t>> : t \in issued}

\* the process accepts connections and runs handlers
Listening == process.pc = "listening"

NextServer ==
    \/ \E c, t \in BOOLEAN : StartServer(c, t)
    \/ \E b \in BOOLEAN : ServerBound(b)
    \/ Sigterm
    \/ Sigint
    \/ PoolError
    \/ \E m \in Methods, o \in Origins : CorsRequest(m, o)
    \/ Listening /\ \E b \in ServerRegisterBodies : RegisterStart(1, b[1], b[2], b[3])
    \/ Listening /\ \E r \in ReqIds, f \in BOOLEAN : RegisterFindEmail(r, f)
    \/ Listening /\ \E r \in ReqIds, f \in BOOLEAN : RegisterFindUsername(r, f)
    \/ Listening /\ \E r \in ReqIds, s \in SystemSalts : RegisterHash(r, s)
    \/ Listening /\ \E r \in ReqIds, f \in BOOLEAN : RegisterCreate(r, f)
    \/ Listening /\ \E b \in ServerLoginBodies : LoginStart(1, b[1], b[2])
    \/ Listening /\ \E r \in ReqIds, f \in BOOLEAN : LoginFindEmail(r, f)
    \/ Listening /\ \E r \in ReqIds : LoginCompare(r)
    \/ Listening /\ \E h \in ServerHeaders : GateStart(2, h)
    \/ Listening /\ \E r \in ReqIds, f \in BOOLEAN : GateFindById(r, f)
    \/ Listening /\ \E r \in ReqIds, f \in BOOLEAN : ListGetAll(r, f)

SpecServer == InitServer /\ [][NextServer]_vars

\* the requests of SpecListing, with every awaited promise settling: the
\* event loop runs the continuation of a handler once its query or its
\* bcrypt call has resolved or rejected
SpecResponses ==
    Init /\ [][NextListing]_vars /\ \A r \in ReqIds : WF_vars(HandlerStep(r))

(* ------------------------------- claims --------------------------------- *)

Done(r, kind) == req[r].kind = kind /\ req[r].pc = "done"

\* slot r holds a response that this step produced
Completes(r) == req'[r] # req[r] /\ req'[r].pc = "done"

\* a body that passes the controller's checks and the model's validators
ValidRegisterInput(rq) ==
    /\ ~Falsy(rq.username) /\ ~Falsy(rq.email) /\ ~Falsy(rq.password)
    /\ emailRegex(rq.email)
    /\ Len(rq.password) >= MinPasswordLength
    /\ modelValidate(rq.username, rq.email)

\* the password whose digest a row stores
RegisteredPassword(u) == u.password.digest[2]

InDirectory(rq) == \E u \in Rows : u.email = rq.email \/ u.username = rq.username

\* the token a list request presented (its header has a second part)
Presented(rq) == rq.header[2]

HasToken(rq) ==
    /\ Len(rq.header) >= 2
    /\ Presented(rq) # Word("")

ServerSigned(tk) == tk.kind = "jwt" /\ tk.sig = Sign(tk.payload, JWT_SECRET)

\* C1: a register with valid input that is answered without an exception
\* and not with 201 is answered 409 with its email or username in the
\* directory -- so with both absent it is answered 201 -- and a login that
\* completes without an exception, for an email and password the directory
\* holds, is answered 200 with a token.
C1_RegisterThenLogin ==
    [][\A r \in ReqIds : Completes(r) =>
          /\ ( /\ req'[r].kind = "register"
               /\ ValidRegisterInput(req'[r])
               /\ req'[r].error = ""
               /\ req'[r].status # 201 )
             => (req'[r].status = 409 /\ InDirectory(req'[r]))
          /\ ( /\ req'[r].kind = "login"
               /\ req'[r].error = ""
               /\ \E u \in Rows : /\ u.email = req'[r].email
                                  /\ RegisteredPassword(u) = req'[r].password )
             => (req'[r].status = 200 /\ req'[r].body.token # {})
      ]_vars

C1_Witness ==
    \E r1, r2 \in ReqIds :
        /\ Done(r1, "register") /\ req[r1].status = 201
        /\ Done(r2, "login") /\ req[r2].status = 200 /\ req[r2].body.token # {}
        /\ req[r2].email = req[r1].email /\ req[r2].password = req[r1].password

\* both requests passed the two lookups and met no persistence failure
Raced(r1, r2) ==
    /\ r1 # r2
    /\ Done(r1, "register") /\ Done(r2, "register")
    /\ req[r1].hashedPassword # NoHash /\ req[r2].hashedPassword # NoHash
    /\ req[r1].error # "SequelizeDatabaseError" /\ req[r2].error # "SequelizeDatabaseError"
    /\ ValidRegisterInput(req[r1]) /\ ValidRegisterInput(req[r2])

\* C2: of two register calls with the same email that both got past the
\* lookups (so they ran concurrently), exactly one is answered 201 and the
\* other 409.
C2_SameEmailRace ==
    \A r1, r2 \in ReqIds :
        (Raced(r1, r2) /\ req[r1].email = req[r2].email) =>
            \/ req[r1].status = 201 /\ req[r2].status = 409
            \/ req[r1].status = 409 /\ req[r2].status = 201

\* C3: of two register calls with the same username and different emails
\* that both got past the lookups, not both are answered 201, and the one
\* whose insert hit the uniqueness violation is answered 409.
C3_SameUsernameRace ==
    \A r1, r2 \in ReqIds :
        ( /\ Raced(r1, r2)
          /\ req[r1].username = req[r2].username
          /\ req[r1].email # req[r2].email ) =>
            /\ ~(req[r1].status = 201 /\ req[r2].status = 201)
            /\ req[r2].error = "SequelizeUniqueConstraintError" => req[r2].status = 409

\* C4: no two stored users share an email, and no two share a username.
C4_UniqueEmailAndUsername ==
    \A i, j \in 1..Len(users) :
        i # j => /\ users[i].email # users[j].email
                 /\ users[i].username # users[j].username

C4_Witness ==
    /\ Len(users) = 2
    /\ \E r \in ReqIds :
          /\ Done(r, "register")
          /\ req[r].error = "SequelizeUniqueConstraintError"
          /\ \E u \in Rows : u.username = req[r].username /\ u.email # req[r].email

\* the login found the user and the supplied password is not the stored one
WrongPassword(r) ==
    /\ Done(r, "login") /\ req[r].error = ""
    /\ \E u \in req[r].user : RegisteredPassword(u) # req[r].password

\* the login's lookup found no user for the (non-empty) email
UnknownEmail(r) ==
    /\ Done(r, "login") /\ req[r].error = ""
    /\ ~Falsy(req[r].email) /\ ~Falsy(req[r].password)
    /\ req[r].user = {}

\* C5: a login with a stored email and a wrong password, and a login with
\* an email the directory does not hold, are both answered 401 with the
\* same body.
C5_SameLoginFailure ==
    \A r1, r2 \in ReqIds :
        (WrongPassword(r1) /\ UnknownEmail(r2)) =>
            /\ req[r1].status = 401
            /\ req[r2].status = 401
            /\ req[r1].body = req[r2].body

C5_Witness ==
    \E r1, r2 \in ReqIds : WrongPassword(r1) /\ UnknownEmail(r2)

\* the JSON objects a response body carries
BodyObjects(b) ==
    b.user \cup {b.users[i] : i \in 1..Len(b.users)} \cup {t.payload : t \in b.token}

\* the fields that hold a number or a string of the request
PlainFields == {"id", "userId", "username", "email", "createdAt", "updatedAt", "iat", "exp"}

\* C6: no response carries a password field, and no other field of a
\* response carries a stored password hash.
C6_NoPasswordInResponses ==
    \A r \in ReqIds :
        /\ "password" \notin req[r].body.keys
        /\ \A o \in BodyObjects(req[r].body) :
              /\ "password" \notin DOMAIN o
              /\ \A f \in DOMAIN o \ PlainFields : \A u \in Rows : o[f] # u.password

C6_Witness ==
    \E r1, r2 \in ReqIds :
        /\ Done(r1, "list") /\ req[r1].status = 200 /\ Len(req[r1].body.users) >= 1
        /\ Done(r2, "login") /\ req[r2].status = 200

\* C7: a list request that presents a token signed by login at the clock
\* value of its issuance passes verification and, unless the directory
\* fails, is passed on; one that presents it after its exp is answered 401
\* (expired) and is not passed on.
C7_FreshAcceptedExpiredRejected ==
    \A r \in ReqIds :
        (req[r].kind = "list" /\ HasToken(req[r]) /\ ServerSigned(Presented(req[r]))) =>
            \A t \in req[r].clockTimestamp :
                /\ t = Presented(req[r]).payload.iat =>
                      /\ req[r].decoded = {Presented(req[r]).payload}
                      /\ req[r].status # 401
                      /\ (req[r].pc \in {"getAllUsers", "done"} /\ req[r].error = "")
                            => req[r].nextCalled
                /\ t > Presented(req[r]).payload.exp =>
                      /\ req[r].pc = "done"
                      /\ req[r].status = 401
                      /\ req[r].body.error = MsgTokenExpired
                      /\ ~req[r].nextCalled

C7_Witness ==
    \E r1, r2 \in ReqIds :
        /\ Done(r1, "list") /\ Done(r2, "list")
        /\ HasToken(req[r1]) /\ req[r1].header = req[r2].header
        /\ ServerSigned(Presented(req[r1]))
        /\ req[r1].clockTimestamp = {Presented(req[r1]).payload.iat}
        /\ req[r1].status = 200 /\ req[r1].nextCalled
        /\ \E t \in req[r2].clockTimestamp : t > Presented(req[r2]).payload.exp
        /\ req[r2].status = 401

\* the payload is not the one the server signed
TamperedToken(tk) ==
    /\ tk.kind = "jwt"
    /\ tk.sig.key = JWT_SECRET
    /\ tk.sig.over # tk.payload

\* C8: a list request that presents a token whose payload differs from the
\* signed one is answered 401 (invalid token) and is never passed on.
C8_TamperedRejected ==
    \A r \in ReqIds :
        (req[r].kind = "list" /\ HasToken(req[r]) /\ TamperedToken(Presented(req[r]))) =>
            /\ req[r].pc = "done"
            /\ req[r].status = 401
            /\ req[r].body.error = MsgInvalidToken
            /\ ~req[r].nextCalled
            /\ req[r].body.users = <<>>

C8_Witness ==
    \E r \in ReqIds :
        /\ Done(r, "list") /\ HasToken(req[r]) /\ TamperedToken(Presented(req[r]))
        /\ Presented(req[r]).payload.exp > Presented(req[r]).sig.over.exp
        /\ req[r].status = 401

AnsweredExpired(rq) == rq.status = 401 /\ rq.body.error = MsgTokenExpired

AnsweredInvalid(rq) == rq.status = 401 /\ rq.body.error = MsgInvalidToken

NoBearerToken(rq) == Len(rq.header) < 2 \/ rq.header[2] = Word("")

\* C10: a list request without a bearer token is answered 401 in the
\* gate's first step: nothing is verified, the directory is not queried and
\* the request is not passed on.
C10_NoTokenRejected ==
    \A r \in ReqIds :
        (req[r].kind = "list" /\ NoBearerToken(req[r])) =>
            /\ req[r].pc = "done"
            /\ req[r].status = 401
            /\ req[r].body.error = MsgNoToken
            /\ req[r].clockTimestamp = {}
            /\ req[r].decoded = {}
            /\ req[r].reqUser = {}
            /\ req[r].error = ""
            /\ ~req[r].nextCalled
            /\ req[r].body.users = <<>>

C10_Witness ==
    \E r1, r2 \in ReqIds :
        /\ Done(r1, "list") /\ req[r1].header = <<>> /\ req[r1].status = 401
        /\ Done(r2, "list") /\ req[r2].header = <<Word("Bearer")>> /\ req[r2].status = 401

\* C11: a list request whose token is signed by the server and unexpired,
\* and whose userId matches no row when the gate looks the account up, is
\* answered 401 without reaching the listing -- also when the same token
\* was admitted before.
C11_RecheckEveryRequest ==
    [][\A r \in ReqIds :
          ( /\ req[r].kind = "list" /\ req[r].pc = "findById"
            /\ req'[r] # req[r]
            /\ req'[r].error = ""
            /\ ServerSigned(Presented(req[r]))
            /\ \A c \in req[r].clockTimestamp : c < Presented(req[r]).payload.exp
            /\ ~\E u \in Rows : u.id = Presented(req[r]).payload.userId )
          => ( /\ req'[r].pc = "done"
               /\ req'[r].status = 401
               /\ ~req'[r].nextCalled
               /\ req'[r].body.users = <<>> )
      ]_vars

\* one token, admitted in one request and answered 401 in another
C11_Witness ==
    \E r1, r2 \in ReqIds :
        /\ Done(r1, "list") /\ Done(r2, "list")
        /\ HasToken(req[r1]) /\ HasToken(req[r2])
        /\ Presented(req[r1]) = Presented(req[r2])
        /\ ServerSigned(Presented(req[r2]))
        /\ req[r1].status = 200
        /\ req[r2].status = 401 /\ req[r2].body.error = MsgUserNotFound

\* C12: a list request the gate has passed on carries req.user with exactly
\* the userId, email and username of the row whose id is the userId of its
\* token, and a list request the gate has not passed on carries no req.user
\* and has not reached the listing.
C12_AttachesUserOfToken ==
    \A r \in ReqIds : req[r].kind = "list" =>
        /\ req[r].nextCalled =>
              \E u \in Rows :
                  /\ u.id = Presented(req[r]).payload.userId
                  /\ req[r].reqUser =
                         {[userId |-> u.id, email |-> u.email, username |-> u.username]}
        /\ ~req[r].nextCalled =>
              /\ req[r].reqUser = {}
              /\ req[r].pc # "getAllUsers"
              /\ req[r].status # 200

\* a request admitted for the second of two accounts
C12_Witness ==
    \E r \in ReqIds :
        /\ Done(r, "list") /\ req[r].nextCalled /\ req[r].status = 200
        /\ Len(users) >= 2
        /\ \E u \in req[r].reqUser : u.userId = 2

\* C13: only a list request carries a list of users in its response, and a
\* list request that has reached getAllUsers or been answered with the
\* listing presented a token signed by the server and unexpired when it was
\* verified, and was passed on by the gate with the account of that token
\* attached.
C13_ListingBehindGate ==
    \A r \in ReqIds :
        /\ (req[r].body.isArray \/ req[r].body.users # <<>>) => req[r].kind = "list"
        /\ ( /\ req[r].kind = "list"
             /\ \/ req[r].pc = "getAllUsers"
                \/ req[r].status = 200
                \/ req[r].body.isArray
                \/ req[r].body.users # <<>> )
           => ( /\ HasToken(req[r])
                /\ ServerSigned(Presented(req[r]))
                /\ req[r].clockTimestamp # {}
                /\ \A c \in req[r].clockTimestamp : c < Presented(req[r]).payload.exp
                /\ req[r].nextCalled
                /\ \E u \in req[r].reqUser : u.userId = Presented(req[r]).payload.userId )

C13_Witness ==
    \E r \in ReqIds :
        /\ Done(r, "list") /\ req[r].status = 200
        /\ Len(req[r].body.users) >= 1
        /\ \E q \in ReqIds : q # r /\ Done(q, "list") /\ req[q].status = 401

\* C14: with the accounts registered one after another, a listing answered
\* 200 holds the public row of every stored user exactly once, the latest
\* registered first: the rows of the table in the reverse of the order in
\* which they were inserted.
C14_NewestFirst ==
    [][\A r \in ReqIds :
          (req[r].kind = "list" /\ Completes(r) /\ req'[r].status = 200) =>
              req'[r].body.users =
                  [i \in 1..Len(users) |-> PublicRow(users[Len(users) + 1 - i])]
      ]_vars

\* A, B and C registered in that order and listed as C, B, A
C14_Witness ==
    \E r \in ReqIds :
        /\ Done(r, "list") /\ req[r].status = 200
        /\ Len(users) = 3
        /\ users[1].username = S_alice /\ users[2].username = S_bob
        /\ users[3].username = S_eve
        /\ Len(req[r].body.users) = 3
        /\ req[r].body.users[1].username = S_eve
        /\ req[r].body.users[2].username = S_bob
        /\ req[r].body.users[3].username = S_alice

\* C15: a listing answered 200 has an object body with the keys message,
\* count and users, where count is the number of entries of users and the
\* number of rows of the table.
C15_ListingBodyShape ==
    [][\A r \in ReqIds :
          (req[r].kind = "list" /\ Completes(r) /\ req'[r].status = 200) =>
              /\ ~req'[r].body.isArray
              /\ req'[r].body.keys = {"message", "count", "users"}
              /\ req'[r].body.count = Len(req'[r].body.users)
              /\ req'[r].body.count = Len(users)
      ]_vars

\* C16: a register whose username is present and whose email has the
\* controller's shape is answered 400 before anything is hashed when its
\* password has 5 characters, and no row stores a password that short; with
\* a password of 6 characters and input the directory accepts, it is
\* answered 201 unless an exception occurred or its email or username is
\* in use (409).
C16_PasswordBoundary ==
    /\ \A u \in Rows : Len(RegisteredPassword(u)) >= 6
    /\ \A r \in ReqIds :
          (req[r].kind = "register" /\ ~Falsy(req[r].username) /\ emailRegex(req[r].email)) =>
              /\ Len(req[r].password) = 5 =>
                    /\ req[r].pc = "done" /\ req[r].status = 400
                    /\ req[r].body.error = MsgShortPassword
                    /\ req[r].hashedPassword = NoHash
              /\ ( /\ Len(req[r].password) = 6
                   /\ req[r].pc = "done" /\ req[r].error = ""
                   /\ modelValidate(req[r].username, req[r].email)
                   /\ req[r].status # 201 )
                 => (req[r].status = 409 /\ InDirectory(req[r]))

\* the same username and email refused with 5 characters, stored with 6
C16_Witness ==
    \E r1, r2 \in ReqIds :
        /\ Done(r1, "register") /\ Len(req[r1].password) = 5 /\ req[r1].status = 400
        /\ Done(r2, "register") /\ Len(req[r2].password) = 6 /\ req[r2].status = 201
        /\ req[r1].username = req[r2].username /\ req[r1].email = req[r2].email

\* C17: a register with its username, email or password missing is answered
\* 400 "All fields are required" in its first step: it has looked nothing
\* up (so no lookup can have failed), hashed nothing and inserted nothing,
\* and no row has an empty username, email or password.
C17_MissingFieldFirst ==
    /\ \A u \in Rows :
          Len(u.username) > 0 /\ Len(u.email) > 0 /\ Len(RegisteredPassword(u)) > 0
    /\ \A r \in ReqIds :
          ( /\ req[r].kind = "register"
            /\ Len(req[r].username) = 0 \/ Len(req[r].email) = 0 \/ Len(req[r].password) = 0 )
          => ( /\ req[r].pc = "done" /\ req[r].status = 400
               /\ req[r].body.error = MsgAllFields
               /\ req[r].error = ""
               /\ req[r].hashedPassword = NoHash )

\* each of the three fields missing in turn, while a row exists
C17_Witness ==
    /\ Len(users) >= 1
    /\ \E r1, r2 \in ReqIds :
          /\ Done(r1, "register") /\ req[r1].status = 400 /\ Len(req[r1].username) = 0
          /\ Done(r2, "register") /\ req[r2].status = 400
          /\ Len(req[r2].email) = 0 \/ Len(req[r2].password) = 0

\* local@domain with a dot inside the domain: no space, one "@" that is not the
\* first character, and after it a dot that neither follows the "@" directly
\* nor ends the string
WellShaped(s) ==
    \E i \in 2..Len(s) :
        /\ s[i] = "@"
        /\ \A k \in 1..Len(s) : s[k] # " " /\ (s[k] = "@" => k = i)
        /\ \E j \in (i + 2)..(Len(s) - 1) : s[j] = "."

\* C18: a register with all fields present whose email is not of the shape
\* local@domain-with-a-dot is answered 400 "valid email address" before
\* anything is looked up or hashed, and one whose email is of that shape is
\* not refused by the email-shape check (with a valid username and password
\* it is not answered 400 at all).
C18_EmailShape ==
    \A r \in ReqIds :
        ( /\ req[r].kind = "register"
          /\ ~Falsy(req[r].username) /\ ~Falsy(req[r].email) /\ ~Falsy(req[r].password) )
        => /\ ~WellShaped(req[r].email) =>
                 /\ req[r].pc = "done" /\ req[r].status = 400
                 /\ req[r].body.error = MsgBadEmail
                 /\ req[r].error = ""
                 /\ req[r].hashedPassword = NoHash
           /\ WellShaped(req[r].email) =>
                 /\ req[r].body.error # MsgBadEmail
                 /\ req[r].status # 400

\* an email of the shape that the directory's validator refuses got past the
\* shape check, to the hash and the insert
C18_Witness ==
    \E r \in ReqIds :
        /\ Done(r, "register")
        /\ WellShaped(req[r].email) /\ ~isEmail(req[r].email)
        /\ req[r].hashedPassword # NoHash
        /\ req[r].status # 400

\* C19: when a register that passed the input checks looks its email up
\* and a row has that email, it is answered 409 "Email is already
\* registered"; when it looks its username up and a row has that username,
\* it is answered 409 "Username is already taken"; in both cases the table
\* is left as it was (lookups that fail with an exception aside).
C19_ConflictBeforeInsert ==
    [][\A r \in ReqIds :
          (req[r].kind = "register" /\ req'[r] # req[r] /\ req'[r].error = "") =>
              /\ (req[r].pc = "findEmail" /\ \E u \in Rows : u.email = req[r].email) =>
                    /\ req'[r].pc = "done" /\ req'[r].status = 409
                    /\ req'[r].body.error = MsgEmailTaken
                    /\ req'[r].hashedPassword = NoHash
                    /\ users' = users
              /\ (req[r].pc = "findUsername" /\ \E u \in Rows : u.username = req[r].username) =>
                    /\ req'[r].pc = "done" /\ req'[r].status = 409
                    /\ req'[r].body.error = MsgUsernameTaken
                    /\ req'[r].hashedPassword = NoHash
                    /\ users' = users
      ]_vars

\* one stored user; its email refused to one request, its username to another
C19_Witness ==
    /\ Len(users) = 1
    /\ \E r1, r2 \in ReqIds :
          /\ Done(r1, "register") /\ req[r1].status = 409
          /\ req[r1].body.error = MsgEmailTaken
          /\ req[r1].email = users[1].email /\ req[r1].username # users[1].username
          /\ Done(r2, "register") /\ req[r2].status = 409
          /\ req[r2].body.error = MsgUsernameTaken
          /\ req[r2].username = users[1].username /\ req[r2].email # users[1].email

\* C20: a register with malformed input -- a field missing, an email not of
\* the controller's shape, a password under 6 characters, a username of
\* fewer than 3 or more than 100 characters, or an email the directory's
\* validator refuses -- that is answered while neither its email nor its
\* username is in use and after no persistence failure, is answered 400.
C20_MalformedIs400 ==
    \A r \in ReqIds :
        ( /\ Done(r, "register")
          /\ ~ValidRegisterInput(req[r])
          /\ req[r].error # "SequelizeDatabaseError"
          /\ ~InDirectory(req[r]) )
        => req[r].status = 400

\* slot r1 holds the registration, answered 201, of the user that the login
\* in slot r2 found by its email
LoginOfRegistered(r1, r2) ==
    /\ Done(r1, "register") /\ req[r1].status = 201
    /\ Done(r2, "login")
    /\ req[r2].email = req[r1].email
    /\ \E u \in req[r2].user : \E v \in req[r1].body.user : u.id = v.id

\* C21: a login that found the user of its email is answered 200 exactly
\* when its password is the password of that user's registration, and 401
\* "Invalid email or password" for every other password.
C21_LoginIffRegisteredPassword ==
    \A r1, r2 \in ReqIds : LoginOfRegistered(r1, r2) =>
        /\ req[r2].status = 200 <=> req[r2].password = req[r1].password
        /\ req[r2].password # req[r1].password =>
              (req[r2].status = 401 /\ req[r2].body.error = MsgInvalidCredentials)

\* C22: a response carries a token only if it is the 200 response of a
\* login that found a stored user by the email supplied and whose password
\* matches that user's hash; the token is signed by the server, its claims
\* userId, email and username are that user's, and the body carries that
\* user's id, username and email beside it.
C22_TokenOnlyFromVerifiedLogin ==
    \A r \in ReqIds : \A tk \in req[r].body.token :
        /\ req[r].kind = "login" /\ req[r].pc = "done" /\ req[r].status = 200
        /\ ServerSigned(tk)
        /\ \E u \in req[r].user :
              /\ u \in Rows
              /\ u.email = req[r].email
              /\ bcryptCompare(req[r].password, u.password)
              /\ tk.payload.userId = u.id
              /\ tk.payload.email = u.email
              /\ tk.payload.username = u.username
              /\ req[r].body.user = {[id |-> u.id, username |-> u.username, email |-> u.email]}

\* a token issued for the second of two users, next to a login refused
C22_Witness ==
    \E r1, r2 \in ReqIds :
        /\ Len(users) >= 2
        /\ Done(r1, "login") /\ \E tk \in req[r1].body.token : tk.payload.userId = 2
        /\ Done(r2, "login") /\ req[r2].status = 401 /\ req[r2].body.token = {}

\* C23: a login answered 200 in this step carries a token issued at the
\* present clock that expires 86400 seconds (24 hours) later, whoever the
\* user is and whatever tokens exist; and every token a response holds
\* expires 86400 seconds after it was issued.
C23_LifetimeIs24h ==
    [][\A r \in ReqIds :
          /\ \A tk \in req[r].body.token : tk.payload.exp = tk.payload.iat + 86400
          /\ (req[r].kind = "login" /\ Completes(r) /\ req'[r].status = 200) =>
                /\ req'[r].body.token # {}
                /\ \A tk \in req'[r].body.token :
                      tk.payload.iat = now /\ tk.payload.exp = now + 86400
      ]_vars

\* tokens of two users issued at two times, the later one while the earlier
\* one has expired
C23_Witness ==
    \E r1, r2 \in ReqIds :
        \E t1 \in req[r1].body.token : \E t2 \in req[r2].body.token :
            /\ t1.payload.userId # t2.payload.userId
            /\ t1.payload.iat = 0
            /\ t2.payload.iat >= t1.payload.exp

\* C24: the gate keeps no record of tokens. A list request that arrives
\* with a token signed by the server while the clock is before the token's
\* exp gets past the verification, and when its account lookup finds the
\* user (and does not fail) it is passed on to the listing -- whatever
\* logins, tokens and registrations there have been since the token was
\* issued.
C24_NeverRevoked ==
    [][\A r \in ReqIds :
          /\ ( /\ Free(r) /\ req'[r] # req[r] /\ req'[r].kind = "list"
               /\ HasToken(req'[r]) /\ ServerSigned(Presented(req'[r]))
               /\ now < Presented(req'[r]).payload.exp )
             => req'[r].pc = "findById"
          /\ ( /\ req[r].kind = "list" /\ req[r].pc = "findById"
               /\ req'[r] # req[r] /\ req'[r].error = ""
               /\ \E u \in Rows : u.id = Presented(req[r]).payload.userId )
             => (req'[r].pc = "getAllUsers" /\ req'[r].nextCalled)
      ]_vars

\* two tokens of one user, both admitted, the earlier one at a moment when
\* the later one had been issued
C24_Witness ==
    \E r1, r2 \in ReqIds :
        /\ Done(r1, "list") /\ req[r1].status = 200
        /\ Done(r2, "list") /\ req[r2].status = 200
        /\ Presented(req[r1]) # Presented(req[r2])
        /\ Presented(req[r1]).payload.userId = Presented(req[r2]).payload.userId
        /\ Presented(req[r1]).payload.iat < Presented(req[r2]).payload.iat
        /\ \A c \in req[r1].clockTimestamp : c >= Presented(req[r2]).payload.iat

\* the columns of a row that the claim speaks of
RowCore(u) ==
    [id |-> u.id, username |-> u.username, email |-> u.email,
     password |-> u.password, createdAt |-> u.createdAt]

\* C25: no step of a register, login, listing or gate request removes a row
\* or changes the id, username, email, password hash or createdAt of a row:
\* the table only grows at its end.
C25_RowsImmutable ==
    [][ /\ Len(users') >= Len(users)
        /\ \A i \in 1..Len(users) : RowCore(users'[i]) = RowCore(users[i])
      ]_vars

\* two rows, with a login, a listing and a refused registration answered
C25_Witness ==
    /\ Len(users) = 2
    /\ \E r1, r2 \in ReqIds :
          /\ Done(r1, "list") /\ req[r1].status = 200
          /\ Done(r2, "register") /\ req[r2].status \in {409, 500}
          /\ InDirectory(req[r2])

\* C26: a login with its email or its password missing is answered 400
\* "Email and password are required" in its first step: it has looked
\* nothing up (so no lookup can have found a user or failed) and its
\* response carries no token.
C26_LoginMissingField ==
    \A r \in ReqIds :
        (req[r].kind = "login" /\ (Len(req[r].email) = 0 \/ Len(req[r].password) = 0)) =>
            /\ req[r].pc = "done" /\ req[r].status = 400
            /\ req[r].body.error = MsgLoginFields
            /\ req[r].error = ""
            /\ req[r].user = {}
            /\ req[r].body.token = {}

\* with a user stored, one login without email and one without password
C26_Witness ==
    /\ Len(users) >= 1
    /\ \E r1, r2 \in ReqIds :
          /\ Done(r1, "login") /\ Len(req[r1].email) = 0 /\ req[r1].status = 400
          /\ Done(r2, "login") /\ Len(req[r2].password) = 0 /\ req[r2].status = 400
          /\ \E u \in Rows : u.email = req[r2].email

\* the fixed messages of the 500 responses of each kind of request
GenericMessages(kind) ==
    IF kind = "register" THEN {MsgRegisterError}
    ELSE IF kind = "login" THEN {MsgLoginError}
    ELSE {MsgAuthError, MsgListError}

\* C27: a request that met a persistence failure (one that is not a
\* uniqueness violation) is answered 500 with a body of the single key
\* error, whose text is the fixed message of its handler and not the text of
\* the error, and which carries no token and no user data.
C27_GenericServerError ==
    \A r \in ReqIds : req[r].error = "SequelizeDatabaseError" =>
        /\ req[r].pc = "done" /\ req[r].status = 500
        /\ req[r].body.keys = {"error"}
        /\ req[r].body.error \in GenericMessages(req[r].kind)
        /\ req[r].body.error # req[r].error
        /\ req[r].body.token = {} /\ req[r].body.user = {} /\ req[r].body.users = <<>>

\* a failed registration or login next to a failed listing
C27_Witness ==
    \E r1, r2 \in ReqIds :
        /\ req[r1].kind \in {"register", "login"}
        /\ req[r1].error = "SequelizeDatabaseError" /\ req[r1].status = 500
        /\ req[r2].kind = "list" /\ req[r2].nextCalled
        /\ req[r2].error = "SequelizeDatabaseError" /\ req[r2].status = 500

\* the one message the fixed order of checks gives a register that is
\* answered, from position pc with the table as it is, without an exception
FirstFailure(rq, pc) ==
    IF Len(rq.username) = 0 \/ Len(rq.email) = 0 \/ Len(rq.password) = 0 THEN {MsgAllFields}
    ELSE IF ~WellShaped(rq.email) THEN {MsgBadEmail}
    ELSE IF Len(rq.password) < 6 THEN {MsgShortPassword}
    ELSE IF pc = "findEmail" /\ (\E u \in Rows : u.email = rq.email) THEN {MsgEmailTaken}
    ELSE IF pc = "findUsername" /\ (\E u \in Rows : u.username = rq.username)
    THEN {MsgUsernameTaken}
    ELSE {}

\* C30: a register answered 400 or 409 without an exception carries the
\* message of the first check that fails in the order missing field, email
\* shape, password length, existing email, existing username, and no other;
\* and a register for which one of these checks fails is answered so.
C30_FirstFailureOnly ==
    [][\A r \in ReqIds :
          (req'[r].kind = "register" /\ req'[r] # req[r] /\ req'[r].error = "") =>
              LET first == FirstFailure(req'[r], req[r].pc)
              IN  /\ first # {} =>
                        /\ req'[r].pc = "done"
                        /\ req'[r].status \in {400, 409}
                        /\ req'[r].body.error \in first
                  /\ (req'[r].pc = "done" /\ req'[r].status \in {400, 409}) =>
                        req'[r].body.error \in first
      ]_vars

\* a bad email with a short password reported as the email, next to an
\* email and a username both in use reported as the email
C30_Witness ==
    \E r1, r2 \in ReqIds :
        /\ Done(r1, "register")
        /\ ~WellShaped(req[r1].email) /\ Len(req[r1].email) > 0
        /\ Len(req[r1].password) \in 1..5 /\ Len(req[r1].username) > 0
        /\ req[r1].body.error = MsgBadEmail
        /\ Done(r2, "register") /\ req[r2].body.error = MsgEmailTaken
        /\ \E u \in Rows : u.email = req[r2].email /\ u.username = req[r2].username

\* C28: whenever the page's listing request is answered with status 401, the
\* page shows the session-expired message, clears the token and the user from
\* its variables and from localStorage, and shows the unauthenticated state
C28_SessionExpiredHandled ==
    [][(page.pc = "fetching" /\ page'.pc = "ready" /\ page'.lastStatus = 401)
        => /\ page'.alert = MsgSessionExpired
           /\ page'.storage = NoStorage
           /\ page'.authToken = {} /\ page'.currentUser = {}
           /\ page'.view = "unauthenticated"]_vars

\* C29: when the page initialises it shows the authenticated state exactly
\* when localStorage holds both the token and the user, and the
\* unauthenticated state otherwise
C29_LoginPersistsAcrossReloads ==
    [][(page.pc = "closed" /\ page'.pc = "ready")
        => LET both == page.storage.authToken # {} /\ page.storage.currentUser # {}
           IN  /\ page'.view = "authenticated" <=> both
               /\ page'.view = "unauthenticated" <=> ~both]_vars

\* C31: the step that answers a register request with 201 appends exactly one
\* row, carrying the submitted username and email and an id no stored row
\* has; the step that answers it with 400, 409 or 500 leaves the table as it
\* was.
C31_RegisterFrame ==
    [][\A r \in ReqIds :
          (Completes(r) /\ req'[r].kind = "register")
          => IF req'[r].status = 201
             THEN /\ Len(users') = Len(users) + 1
                  /\ SubSeq(users', 1, Len(users)) = users
                  /\ users'[Len(users')].username = req'[r].username
                  /\ users'[Len(users')].email = req'[r].email
                  /\ \A u \in Rows : u.id # users'[Len(users')].id
             ELSE /\ req'[r].status \in {400, 409, 500}
                  /\ users' = users
      ]_vars

\* one registration stored its row, another reached the INSERT and was
\* answered 500 without storing one
C31_Witness ==
    /\ Len(users) = 1
    /\ \E r1, r2 \in ReqIds :
          /\ Done(r1, "register") /\ req[r1].status = 201
          /\ users[1].username = req[r1].username
          /\ Done(r2, "register") /\ req[r2].status = 500
          /\ req[r2].hashedPassword # NoHash

\* C32: every step of a listing request is one of four: the gate waits for
\* the account lookup without having decided; the gate refuses, sending one
\* 401 or 500 response with the downstream handler never called; the gate
\* admits, calling the downstream handler with req.user set and no response
\* sent; or the downstream handler, already called, answers.  A request
\* refused stays refused, and a lookup that fails is answered 500 by the
\* gate.
C32_GateDecidesOnce ==
    [][\A r \in ReqIds :
          (req'[r] # req[r] /\ req'[r].kind = "list")
          => LET old == req[r]
                 new == req'[r]
                 arrives == old.pc \in {"idle", "done"}
                 waits == /\ arrives /\ new.pc = "findById"
                          /\ ~new.nextCalled /\ new.status = 0
                 refuses == /\ arrives \/ (old.kind = "list" /\ old.pc = "findById")
                            /\ new.pc = "done" /\ ~new.nextCalled
                            /\ new.status \in {401, 500}
                            /\ new.body.keys = {"error"}
                 admits == /\ old.kind = "list" /\ old.pc = "findById"
                           /\ ~old.nextCalled /\ new.nextCalled
                           /\ new.pc = "getAllUsers" /\ new.status = 0
                           /\ new.reqUser # {} /\ new.error = ""
                 downstream == /\ old.kind = "list" /\ old.pc = "getAllUsers"
                               /\ old.nextCalled /\ new.nextCalled
                               /\ new.pc = "done" /\ new.status \in {200, 500}
             IN  /\ waits \/ refuses \/ admits \/ downstream
                 /\ (old.kind = "list" /\ old.pc = "findById"
                        /\ new.error = "SequelizeDatabaseError")
                    => (new.status = 500 /\ ~new.nextCalled /\ new.pc = "done")
      ]_vars

\* one request was admitted and answered by the handler, another held a
\* verified token and was refused with 500 when the account lookup failed
C32_Witness ==
    \E r1, r2 \in ReqIds :
        /\ Done(r1, "list") /\ req[r1].nextCalled /\ req[r1].status = 200
        /\ Done(r2, "list") /\ ~req[r2].nextCalled /\ req[r2].status = 500
        /\ req[r2].decoded # {} /\ req[r2].error = "SequelizeDatabaseError"

\* a request of slot r is with its handler, not yet answered
InFlight(r) == req[r].pc \notin {"idle", "done"}

\* C33: a register, login or listing request has no response while its
\* handler runs and exactly one once the handler is done, never two; and
\* every request that entered its handler is answered.
C33_ExactlyOneResponse ==
    /\ [](\A r \in ReqIds :
            /\ req[r].sent = IF req[r].pc = "done" THEN 1 ELSE 0
            /\ req[r].pc = "done" => req[r].status \in {200, 201, 400, 401, 409, 500})
    /\ \A r \in ReqIds : InFlight(r) ~> req[r].pc = "done"

\* a registration, a login and a listing have each been answered after
\* waiting for the directory
C33_Witness ==
    /\ Len(users) >= 1
    /\ Done(1, "register") /\ req[1].status = 409 /\ req[1].sent = 1
    /\ Done(2, "list") /\ req[2].nextCalled /\ req[2].sent = 1

\* the userId, email and username claims of a token
ClaimsOf(tk) ==
    [userId |-> tk.payload.userId, email |-> tk.payload.email,
     username |-> tk.payload.username]

\* C34: a list request the gate has passed on presented a token signed by
\* the server, and the identity in req.user, read from the directory, is
\* equal to the userId, email and username claims of that token.
C34_IdentityEqualsClaims ==
    \A r \in ReqIds :
        (req[r].kind = "list" /\ req[r].nextCalled)
        => /\ HasToken(req[r])
           /\ ServerSigned(Presented(req[r]))
           /\ req[r].reqUser = {ClaimsOf(Presented(req[r]))}

\* with two accounts stored, a request of the first account has been passed
\* on by the gate and waits for the listing
C34_Witness ==
    \E r \in ReqIds :
        /\ req[r].kind = "list" /\ req[r].pc = "getAllUsers" /\ req[r].nextCalled
        /\ Len(users) = 2
        /\ \E u \in req[r].reqUser : u.userId = 1 /\ u.email = users[1].email

\* C35: a list request whose header has no second part, or an empty one, is
\* answered 401 "no token" without any verification, whatever its first
\* part; a list request whose second part is a token signed by the server
\* and not expired passes verification whatever word precedes it, and is
\* passed on unless the account lookup fails.
C35_SecondPartIsToken ==
    \A r \in ReqIds : req[r].kind = "list" =>
        /\ ~HasToken(req[r]) =>
              /\ req[r].pc = "done" /\ req[r].status = 401
              /\ req[r].body.error = MsgNoToken
              /\ req[r].decoded = {} /\ ~req[r].nextCalled
        /\ ( /\ HasToken(req[r])
             /\ ServerSigned(Presented(req[r]))
             /\ \A t \in req[r].clockTimestamp : t < Presented(req[r]).payload.exp )
           => /\ req[r].decoded = {Presented(req[r]).payload}
              /\ req[r].pc = "done" =>
                    (req[r].nextCalled \/ req[r].error = "SequelizeDatabaseError")

\* a token after a word other than Bearer has been admitted and answered
C35_Witness ==
    /\ Done(2, "list") /\ req[2].nextCalled /\ req[2].status = 200
    /\ req[2].header[1] = Word("Basic")

\* C36: every stored user has a username of 3 to 100 characters and a
\* password column holding a bcrypt hash, never the empty value.
C36_StoredUsersValid ==
    \A u \in Rows :
        /\ Len(u.username) >= UsernameMinLen
        /\ Len(u.username) <= UsernameMaxLen
        /\ u.password # NoHash
        /\ u.password.salt \in Salts

\* a username of the minimum length is stored, and registrations with a
\* username of 2 and of 101 characters reached User.create and were refused
C36_Witness ==
    /\ \E u \in Rows : Len(u.username) = UsernameMinLen
    /\ \E r1, r2 \in ReqIds :
          /\ Done(r1, "register") /\ req[r1].username = S_short
          /\ req[r1].error = "SequelizeValidationError"
          /\ Done(r2, "register") /\ req[r2].username = S_long
          /\ req[r2].error = "SequelizeValidationError"

\* C37: the process listens, and has handled any request, only after the
\* connection test returned true; once the test has returned false, or the
\* start has thrown, the process has exited with code 1 without ever having
\* listened.
C37_ListensAfterTest ==
    /\ (process.pc = "listening" \/ process.listened) => process.dbConnected = {TRUE}
    /\ (\E r \in ReqIds : req[r].kind # "none") => process.listened
    /\ process.exchange # NoExchange => process.listened
    /\ (process.dbConnected = {FALSE} \/ (process.thrown = "Error" /\ process.signal = ""))
       => (process.pc = "exited" /\ process.exitCode = {1} /\ ~process.listened)

\* the process listens after a successful test and has answered a request
C37_Witness ==
    /\ process.pc = "listening" /\ process.dbConnected = {TRUE}
    /\ Done(1, "register") /\ req[1].status = 201

\* the other case of C37: the test failed and the process is gone
C37_FailedTestExits ==
    /\ process.dbConnected = {FALSE} /\ process.exitCode = {1}

\* C38: the step in which the process receives SIGTERM while it listens
\* closes the HTTP server and ends the process with exit code 0.
C38_GracefulShutdown ==
    [][(process.pc = "listening" /\ process'.signal = "SIGTERM")
        => (process'.closed /\ process'.pc = "exited" /\ process'.exitCode = {0})
      ]_vars

\* C39: a request that reached the CORS middleware with method OPTIONS is
\* answered 200 and not passed on; with any other method it is passed on
\* and not answered by the middleware; Access-Control-Allow-Origin is set
\* exactly when the request has no origin (then "*") or an origin of the
\* allowed list (then that origin), so a request of a disallowed origin gets
\* no such header and is passed on like any other.
C39_CorsMiddleware ==
    LET x == process.exchange
        allowed == x.origin = "" \/ x.origin \in allowedOrigins(process.frontendUrl)
    IN  x # NoExchange =>
          /\ x.method = "OPTIONS" => (x.status = 200 /\ ~x.nextCalled)
          /\ x.method # "OPTIONS" => (x.nextCalled /\ x.status = 0)
          /\ x.allowOrigin # "" <=> allowed
          /\ allowed => x.allowOrigin = IF x.origin = "" THEN "*" ELSE x.origin

\* a GET of a disallowed origin was passed on without the header, in a
\* process whose FRONTEND_URL is set
C39_Witness ==
    /\ process.frontendUrl # ""
    /\ process.exchange.method = "GET"
    /\ process.exchange.origin = "https://evil.example"
    /\ process.exchange.nextCalled /\ process.exchange.allowOrigin = ""

====
